---- MODULE Spec2Model ----
(***************************************************************************)
(* A model of the tc-flower rule parser of libkefir                        *)
(* (src/libkefir_parse_tc.c, src/libkefir_internals.h).                    *)
(*                                                                         *)
(* One behaviour is one call of tcflower_parse_rule(user_rule, rule_size): *)
(* Init picks the token array, every action is one step of the function   *)
(* body, in the order of the source.  Tokens are strings.  The helpers    *)
(* the file calls but does not define (parse_uint, parse_*_slash_mask,    *)
(* parse_check_and_store_uint) are the value codec of libkefir_parse.c;   *)
(* they are modelled from their documented contract.                       *)
(***************************************************************************)
EXTENDS Integers, Sequences, FiniteSets, TLC

VARIABLES
    user_rule,      \* the token array handed to tcflower_parse_rule
    argv,           \* cursor: index in user_rule of the current token
    argc,           \* unsigned count of tokens left (negative: wrapped below 0)
    ethtype,        \* enum ether_proto_type
    matches,        \* struct kefir_match matches[KEFIR_MAX_MATCH_PER_RULE]
    match_index,    \* size_t match_index
    action_code,    \* enum kefir_action_code, "uninit" until it is assigned
    rule,           \* the returned pointer: <<>> is NULL, <<r>> points to r
    heap,           \* number of struct kefir_rule objects calloc'ed and live
    err,            \* what the last err_fail() or codec failure reported
    pc,             \* position in tcflower_parse_rule
    reads,          \* indices of user_rule that were dereferenced
    dispatched,     \* indices whose token was compared with the match keywords
    first           \* what an earlier call on the same rule with flower returned

vars == << user_rule, argv, argc, ethtype, matches, match_index, action_code,
           rule, heap, err, pc, reads, dispatched, first >>

(***************************************************************************)
(* Program constants.                                                      *)
(***************************************************************************)
KEFIR_MAX_MATCH_PER_RULE == 5

\* sizeof(struct in6_addr): the length of mask[] and max_value[].
MaskBytes == 16

\* Mutants of MinRuleSize: a length check that lets a rule without a match
\* clause through, one that lets the bare protocol clause through, and one
\* that is off by one.
MinRuleSize_noMatch == 6 - 2

MinRuleSize_headOnly == 6 - 4

MinRuleSize_offByOne == 6 - 1

\* rule_size below which tcflower_parse_rule refuses the call.
MinRuleSize == 6

(***************************************************************************)
(* Bounds of the model.                                                    *)
(***************************************************************************)
\* Longest list of match clauses in the inputs built from the core clauses.
MaxClauses == 6

\* Longest list of match clauses in the inputs built from the whole keyword
\* table and in the inputs with a damaged head or tail.
MaxRich == 2

(***************************************************************************)
(* Byte strings.                                                           *)
(***************************************************************************)
ZeroBytes == [i \in 1..MaskBytes |-> 0]

AllOnes == [i \in 1..MaskBytes |-> 255]

Pow2(n) == 2^n

\* A prefix length as a byte mask: the first plen bits set.
PrefixMask(plen) ==
    [i \in 1..MaskBytes |->
        IF plen >= 8 * i THEN 255
        ELSE IF plen > 8 * (i - 1) THEN 256 - Pow2(8 * i - plen)
        ELSE 0]

\* A numeric mask of a field of at most 8 bits, stored in the first byte.
ByteMask(m) == [i \in 1..MaskBytes |-> IF i = 1 THEN m ELSE 0]

(***************************************************************************)
(* The value codec (libkefir_parse.c), after its documented contract.      *)
(* A token is split at its first '/', its two halves are read as numbers   *)
(* or addresses.  The lexical tables list the literals of the model.       *)
(***************************************************************************)
HasSlash(tok) ==
    tok \in {"5/7", "10.0.0.1/24", "2001:db8::1/64",
             "aa:bb:cc:dd:ee:ff/ff:ff:ff:00:00:00"}

Base(tok) ==
    CASE tok = "5/7" -> "5"
      [] tok = "10.0.0.1/24" -> "10.0.0.1"
      [] tok = "2001:db8::1/64" -> "2001:db8::1"
      [] tok = "aa:bb:cc:dd:ee:ff/ff:ff:ff:00:00:00" -> "aa:bb:cc:dd:ee:ff"
      [] OTHER -> tok

Suffix(tok) ==
    CASE tok = "5/7" -> "7"
      [] tok = "10.0.0.1/24" -> "24"
      [] tok = "2001:db8::1/64" -> "64"
      [] tok = "aa:bb:cc:dd:ee:ff/ff:ff:ff:00:00:00" -> "ff:ff:ff:00:00:00"
      [] OTHER -> ""

IsNumber(s) ==
    s \in {"5", "7", "8", "17", "24", "64", "80", "256", "4096", "65536"}

NumberOf(s) ==
    CASE s = "5" -> 5 [] s = "7" -> 7 [] s = "8" -> 8 [] s = "17" -> 17
      [] s = "24" -> 24 [] s = "64" -> 64 [] s = "80" -> 80
      [] s = "256" -> 256 [] s = "4096" -> 4096 [] s = "65536" -> 65536
      [] OTHER -> 0

IsEthAddr(s) == s \in {"aa:bb:cc:dd:ee:ff", "ff:ff:ff:00:00:00"}

IsIpv4Addr(s) == s \in {"10.0.0.1"}

IsIpv6Addr(s) == s \in {"2001:db8::1"}

\* The bytes of an ethernet address, followed by zeroes.
EthMaskOf(s) ==
    [i \in 1..MaskBytes |->
        IF s = "ff:ff:ff:00:00:00" /\ i <= 3 THEN 255
        ELSE IF s = "aa:bb:cc:dd:ee:ff" /\ i <= 6 THEN 170 + 17 * (i - 1)
        ELSE 0]

\* The zeroed union of struct kefir_value.
NoData == [member |-> "none", num |-> 0, addr |-> ""]

NumData(member, n) == [member |-> member, num |-> n, addr |-> ""]

AddrData(member, a) == [member |-> member, num |-> 0, addr |-> a]

\* An error report: its kind, the function that raised it, and the argument
\* its format string prints (fmt "%s": the string str; fmt "%d": the int num).
NoErr == [kind |-> "none", by |-> "none", fmt |-> "none", str |-> "", num |-> 0]

Fail(kind, by) == [kind |-> kind, by |-> by, fmt |-> "none", str |-> "", num |-> 0]

FailStr(kind, by, tok) == [kind |-> kind, by |-> by, fmt |-> "%s", str |-> tok, num |-> 0]

FailNum(kind, by, n) == [kind |-> kind, by |-> by, fmt |-> "%d", str |-> "", num |-> n]

CodecFail == Fail("MalformedValue", "codec")

\* parse_uint(input, output, nbits): the number, refused when it is no
\* number or does not fit nbits bits.  It has no mask parameter.
parse_uint(input, member, nbits) ==
    IF IsNumber(input) /\ NumberOf(input) < Pow2(nbits)
    THEN [res |-> 0, data |-> NumData(member, NumberOf(input)), err |-> NoErr]
    ELSE [res |-> -1, data |-> NoData, err |-> CodecFail]

\* parse_check_and_store_uint(val, output, nbits, mask): stores a number
\* already known, after the same width check.
parse_check_and_store_uint(val, member, nbits) ==
    IF val < Pow2(nbits)
    THEN [res |-> 0, data |-> NumData(member, val), err |-> NoErr]
    ELSE [res |-> -1, data |-> NoData, err |-> CodecFail]

\* parse_uint_slash_mask(input, output, nbits, mask): "value" or
\* "value/mask"; without a mask the mask is all-ones.
parse_uint_slash_mask(input, member, nbits) ==
    LET v == parse_uint(Base(input), member, nbits)
        m == parse_uint(Suffix(input), member, nbits)
    IN  IF v.res # 0 \/ (HasSlash(input) /\ m.res # 0)
        THEN [res |-> -1, data |-> NoData, mask |-> ZeroBytes,
              err |-> CodecFail]
        ELSE [res |-> 0, data |-> v.data,
              mask |-> IF HasSlash(input) THEN ByteMask(m.data.num) ELSE AllOnes,
              err |-> NoErr]

\* parse_eth_addr_slash_mask(input, output, mask): "addr" or "addr/mask".
parse_eth_addr_slash_mask(input) ==
    IF IsEthAddr(Base(input)) /\ (HasSlash(input) => IsEthAddr(Suffix(input)))
    THEN [res |-> 0, data |-> AddrData("eth", Base(input)),
          mask |-> IF HasSlash(input) THEN EthMaskOf(Suffix(input)) ELSE AllOnes,
          err |-> NoErr]
    ELSE [res |-> -1, data |-> NoData, mask |-> ZeroBytes,
          err |-> CodecFail]

\* parse_ipv4_addr_slash_mask(input, output, mask): "addr" or "addr/len".
parse_ipv4_addr_slash_mask(input) ==
    IF IsIpv4Addr(Base(input))
       /\ (HasSlash(input) => IsNumber(Suffix(input)) /\ NumberOf(Suffix(input)) <= 32)
    THEN [res |-> 0, data |-> AddrData("ipv4", Base(input)),
          mask |-> IF HasSlash(input) THEN PrefixMask(NumberOf(Suffix(input)))
                   ELSE AllOnes,
          err |-> NoErr]
    ELSE [res |-> -1, data |-> NoData, mask |-> ZeroBytes,
          err |-> CodecFail]

\* parse_ipv6_addr_slash_mask(input, output, mask): "addr" or "addr/len".
parse_ipv6_addr_slash_mask(input) ==
    IF IsIpv6Addr(Base(input))
       /\ (HasSlash(input) => IsNumber(Suffix(input)) /\ NumberOf(Suffix(input)) <= 128)
    THEN [res |-> 0, data |-> AddrData("ipv6", Base(input)),
          mask |-> IF HasSlash(input) THEN PrefixMask(NumberOf(Suffix(input)))
                   ELSE AllOnes,
          err |-> NoErr]
    ELSE [res |-> -1, data |-> NoData, mask |-> ZeroBytes,
          err |-> CodecFail]

(***************************************************************************)
(* The token cursor.                                                       *)
(***************************************************************************)
rule_size == Len(user_rule)

\* **argv: the token under the cursor.  Past the end of the array the read
\* is out of bounds; such an index is kept in reads.
TokenAt(i) == IF i \in 1..Len(user_rule) THEN user_rule[i] ELSE "<out of bounds>"

\* argc is an unsigned int: below 0 it wraps to a huge value, which the
\* model keeps as the negative number c, standing for 2^32 + c.
ULess(c, n) == c >= 0 /\ c < n

UGreater(c, n) == c < 0 \/ c > n

\* Mutant of NEXT_ARG: the count of tokens left is not decreased.
NEXT_ARG_noCount(cur) == [argv |-> cur.argv + 1, argc |-> cur.argc]

\* NEXT_ARG(): *argv += 1; *argc -= 1.
NEXT_ARG(cur) == [argv |-> cur.argv + 1, argc |-> cur.argc - 1]

(***************************************************************************)
(* struct kefir_match, and the zeroed array of tcflower_parse_rule.        *)
(***************************************************************************)
ZeroMatch ==
    [match_type |-> "KEFIR_MATCH_TYPE_UNSPEC",
     comp_operator |-> "KEFIR_OPER_EQUAL",
     value |-> [data |-> NoData, format |-> "KEFIR_VAL_FMT_BIT"],
     max_value |-> ZeroBytes,
     mask |-> ZeroBytes,
     flags |-> 0]

ZeroMatches == [i \in 1..KEFIR_MAX_MATCH_PER_RULE |-> ZeroMatch]

(***************************************************************************)
(* tcflower_parse_ethproto                                                 *)
(***************************************************************************)
tcflower_parse_ethproto(cur, et) ==
    LET tok == TokenAt(cur.argv) IN
    IF tok = "ip" \/ tok = "ipv4"
    THEN [ret |-> 0, cur |-> NEXT_ARG(cur), ethtype |-> "TCFLOWER_ETH_PROTO_IPV4",
          err |-> NoErr]
    ELSE IF tok = "ipv6"
    THEN [ret |-> 0, cur |-> NEXT_ARG(cur), ethtype |-> "TCFLOWER_ETH_PROTO_IPV6",
          err |-> NoErr]
    ELSE [ret |-> -1, cur |-> cur, ethtype |-> et,
          err |-> FailStr("UnsupportedProtocol", "tcflower_parse_ethproto", tok)]

(***************************************************************************)
(* tcflower_parse_ipproto                                                  *)
(***************************************************************************)
IsIpprotoAlias(input) == input \in {"tcp", "udp", "sctp", "icmp", "icmpv6"}

\* IPPROTO_TCP, IPPROTO_UDP, IPPROTO_SCTP, IPPROTO_ICMP, IPPROTO_ICMPV6.
IpprotoOf(input) ==
    CASE input = "tcp" -> 6
      [] input = "udp" -> 17
      [] input = "sctp" -> 132
      [] input = "icmp" -> 1
      [] input = "icmpv6" -> 58

\* Mutant of tcflower_parse_ipproto: the aliases are not looked up.
tcflower_parse_ipproto_noAlias(input) ==
    LET r == parse_uint(input, "u8", 8)
    IN  IF r.res # 0
        THEN [res |-> -1, data |-> NoData,
              err |-> FailStr("UnsupportedProtocolNumber", "tcflower_parse_ipproto",
                              input)]
        ELSE [res |-> 0, data |-> r.data, err |-> NoErr]

tcflower_parse_ipproto(input) ==
    LET r == IF IsIpprotoAlias(input)
             THEN parse_check_and_store_uint(IpprotoOf(input), "u8", 8)
             ELSE parse_uint(input, "u8", 8)
    IN  IF r.res # 0
        THEN [res |-> -1, data |-> NoData,
              err |-> FailStr("UnsupportedProtocolNumber", "tcflower_parse_ipproto",
                              input)]
        ELSE [res |-> 0, data |-> r.data, err |-> NoErr]

(***************************************************************************)
(* tcflower_parse_match                                                    *)
(***************************************************************************)
MatchKeywords ==
    {"dst_mac", "src_mac", "vlan_id", "vlan_prio", "vlan_ethtype", "cvlan_id",
     "cvlan_prio", "cvlan_ethtype", "ip_proto", "ip_tos", "ip_ttl", "dst_ip",
     "src_ip", "dst_port", "src_port"}

\* Mutant of L4PortDstType: the family test of the dst_port branch is lost.
L4PortDstType_noFamily(ipv6_flow) == "KEFIR_MATCH_TYPE_IP_4_L4PORT_DST"

\* The dst_port branch: if (ipv6_flow) ... else ...
L4PortDstType(ipv6_flow) ==
    IF ipv6_flow THEN "KEFIR_MATCH_TYPE_IP_6_L4PORT_DST"
    ELSE "KEFIR_MATCH_TYPE_IP_4_L4PORT_DST"

\* Mutant of VlanPrioValue: the width of the vlan_ethtype branch, 16, copied
\* into the vlan_prio branch.
VlanPrioValue_width16(input) == parse_uint(input, "u8", 16)

\* The vlan_prio and cvlan_prio branches: parse_uint(**argv, &match->value.u8, 3)
VlanPrioValue(input) == parse_uint(input, "u8", 3)

\* The match kind a keyword gives: "if (ipv6_flow) ... else ...".
MatchTypeOf(kw, ipv6_flow) ==
    CASE kw = "dst_mac" -> "KEFIR_MATCH_TYPE_ETHER_DST"
      [] kw = "src_mac" -> "KEFIR_MATCH_TYPE_ETHER_SRC"
      [] kw = "vlan_id" -> "KEFIR_MATCH_TYPE_SVLAN_ID"
      [] kw = "vlan_prio" -> "KEFIR_MATCH_TYPE_SVLAN_PRIO"
      [] kw = "vlan_ethtype" -> "KEFIR_MATCH_TYPE_SVLAN_ETHERTYPE"
      [] kw = "cvlan_id" -> "KEFIR_MATCH_TYPE_CVLAN_ID"
      [] kw = "cvlan_prio" -> "KEFIR_MATCH_TYPE_CVLAN_PRIO"
      [] kw = "cvlan_ethtype" -> "KEFIR_MATCH_TYPE_CVLAN_ETHERTYPE"
      [] kw = "ip_proto" -> IF ipv6_flow THEN "KEFIR_MATCH_TYPE_IP_6_L4PROTO"
                            ELSE "KEFIR_MATCH_TYPE_IP_4_L4PROTO"
      [] kw = "ip_tos" -> IF ipv6_flow THEN "KEFIR_MATCH_TYPE_IP_6_TOS"
                          ELSE "KEFIR_MATCH_TYPE_IP_4_TOS"
      [] kw = "ip_ttl" -> IF ipv6_flow THEN "KEFIR_MATCH_TYPE_IP_6_TTL"
                          ELSE "KEFIR_MATCH_TYPE_IP_4_TTL"
      [] kw = "dst_ip" -> IF ipv6_flow THEN "KEFIR_MATCH_TYPE_IP_6_DST"
                          ELSE "KEFIR_MATCH_TYPE_IP_4_DST"
      [] kw = "src_ip" -> IF ipv6_flow THEN "KEFIR_MATCH_TYPE_IP_6_SRC"
                          ELSE "KEFIR_MATCH_TYPE_IP_4_SRC"
      [] kw = "dst_port" -> L4PortDstType(ipv6_flow)
      [] kw = "src_port" -> IF ipv6_flow THEN "KEFIR_MATCH_TYPE_IP_6_L4PORT_SRC"
                            ELSE "KEFIR_MATCH_TYPE_IP_4_L4PORT_SRC"

\* The codec call of a keyword's branch: what it stores in match->value, and
\* in match->mask when the call is handed the mask; "masked" tells which.
MatchValue(kw, input, ipv6_flow) ==
    LET plain(r) == [res |-> r.res, data |-> r.data, masked |-> FALSE,
                     mask |-> ZeroBytes, err |-> r.err]
        withmask(r) == [res |-> r.res, data |-> r.data, masked |-> TRUE,
                        mask |-> r.mask, err |-> r.err]
    IN  CASE kw \in {"dst_mac", "src_mac"} -> withmask(parse_eth_addr_slash_mask(input))
          [] kw \in {"vlan_id", "cvlan_id"} -> plain(parse_uint(input, "u16", 12))
          [] kw \in {"vlan_prio", "cvlan_prio"} -> plain(VlanPrioValue(input))
          [] kw \in {"vlan_ethtype", "cvlan_ethtype"} -> plain(parse_uint(input, "u16", 16))
          [] kw = "ip_proto" -> plain(tcflower_parse_ipproto(input))
          [] kw \in {"ip_tos", "ip_ttl"} -> withmask(parse_uint_slash_mask(input, "u8", 8))
          [] kw \in {"dst_ip", "src_ip"} ->
                IF ipv6_flow THEN withmask(parse_ipv6_addr_slash_mask(input))
                ELSE withmask(parse_ipv4_addr_slash_mask(input))
          [] kw \in {"dst_port", "src_port"} -> plain(parse_uint(input, "u16", 16))

\* Mutant of UnsupportedKeyword: the refused token is stepped over.
UnsupportedKeyword_consumes(cur, m0, kw) ==
    [ret |-> -1, cur |-> NEXT_ARG(cur), match |-> m0,
     err |-> FailStr("UnsupportedMatchKeyword", "tcflower_parse_match", kw),
     reads |-> {cur.argv}, dispatched |-> {cur.argv}]

\* } else { err_fail("unsupported match keyword %s", **argv); return -1; }
UnsupportedKeyword(cur, m0, kw) ==
    [ret |-> -1, cur |-> cur, match |-> m0,
     err |-> FailStr("UnsupportedMatchKeyword", "tcflower_parse_match", kw),
     reads |-> {cur.argv}, dispatched |-> {cur.argv}]

\* The result of one call: ret, the cursor and the match slot as the call
\* leaves them, the error reported, the indices read and dispatched.
tcflower_parse_match(cur, et, match) ==
    LET ipv6_flow == (et = "TCFLOWER_ETH_PROTO_IPV6")
        m0 == [match EXCEPT !.comp_operator = "KEFIR_OPER_EQUAL"]
        kw == TokenAt(cur.argv)
        cur1 == NEXT_ARG(cur)
        input == TokenAt(cur1.argv)
        v == MatchValue(kw, input, ipv6_flow)
        m1 == [m0 EXCEPT !.value.data = v.data,
                         !.mask = IF v.masked THEN v.mask ELSE @,
                         !.match_type = MatchTypeOf(kw, ipv6_flow)]
        cur2 == NEXT_ARG(cur1)
        badcount == Fail("BadArgumentCount", "tcflower_parse_match")
    IN  IF ULess(cur.argc, 2)
        THEN [ret |-> -1, cur |-> cur, match |-> match, err |-> badcount,
              reads |-> {}, dispatched |-> {}]
        ELSE IF kw \notin MatchKeywords
        THEN UnsupportedKeyword(cur, m0, kw)
        ELSE IF v.res # 0
        THEN [ret |-> -1, cur |-> cur1, match |-> m0, err |-> v.err,
              reads |-> {cur.argv, cur1.argv}, dispatched |-> {cur.argv}]
        ELSE IF ULess(cur2.argc, 1)
        THEN [ret |-> -1, cur |-> cur2, match |-> m1, err |-> badcount,
              reads |-> {cur.argv, cur1.argv}, dispatched |-> {cur.argv}]
        ELSE [ret |-> 0, cur |-> cur2, match |-> m1, err |-> NoErr,
              reads |-> {cur.argv, cur1.argv}, dispatched |-> {cur.argv}]

(***************************************************************************)
(* tcflower_check_matchlist                                                *)
(***************************************************************************)
L4ProtoTypes ==
    {"KEFIR_MATCH_TYPE_IP_4_L4PROTO", "KEFIR_MATCH_TYPE_IP_6_L4PROTO",
     "KEFIR_MATCH_TYPE_IP_ANY_L4PROTO"}

L4PortTypes ==
    {"KEFIR_MATCH_TYPE_IP_4_L4PORT_SRC", "KEFIR_MATCH_TYPE_IP_4_L4PORT_DST",
     "KEFIR_MATCH_TYPE_IP_4_L4PORT_ANY", "KEFIR_MATCH_TYPE_IP_6_L4PORT_SRC",
     "KEFIR_MATCH_TYPE_IP_6_L4PORT_DST", "KEFIR_MATCH_TYPE_IP_6_L4PORT_ANY",
     "KEFIR_MATCH_TYPE_IP_ANY_L4PORT_SRC", "KEFIR_MATCH_TYPE_IP_ANY_L4PORT_DST",
     "KEFIR_MATCH_TYPE_IP_ANY_L4PORT_ANY"}

\* The slots the loop visits: those before the first UNSPEC one ("goto out").
Scanned(match_list) ==
    {i \in 1..KEFIR_MAX_MATCH_PER_RULE :
        \A j \in 1..i : match_list[j].match_type # "KEFIR_MATCH_TYPE_UNSPEC"}

\* Mutant of tcflower_check_matchlist: the scan starts at the second slot.
tcflower_check_matchlist_skipFirst(match_list) ==
    LET found_ipproto ==
            \E i \in Scanned(match_list) : match_list[i].match_type \in L4ProtoTypes
        found_l4_port ==
            \E i \in Scanned(match_list) \ {1} :
                match_list[i].match_type \in L4PortTypes
    IN  IF found_l4_port /\ ~found_ipproto
        THEN [ret |-> -1,
              err |-> Fail("MissingRequiredMatch", "tcflower_check_matchlist")]
        ELSE [ret |-> 0, err |-> NoErr]

\* Mutant of tcflower_check_matchlist: ip_proto counts only in front of
\* every port match.
tcflower_check_matchlist_ordered(match_list) ==
    LET ports == {i \in Scanned(match_list) :
                     match_list[i].match_type \in L4PortTypes}
        found_ipproto ==
            \E i \in Scanned(match_list) :
                /\ match_list[i].match_type \in L4ProtoTypes
                /\ \A j \in ports : i < j
    IN  IF ports # {} /\ ~found_ipproto
        THEN [ret |-> -1,
              err |-> Fail("MissingRequiredMatch", "tcflower_check_matchlist")]
        ELSE [ret |-> 0, err |-> NoErr]

\* Mutant of tcflower_check_matchlist: the result of the scan is not used.
tcflower_check_matchlist_noCheck(match_list) == [ret |-> 0, err |-> NoErr]

tcflower_check_matchlist(match_list) ==
    LET found_ipproto ==
            \E i \in Scanned(match_list) : match_list[i].match_type \in L4ProtoTypes
        found_l4_port ==
            \E i \in Scanned(match_list) : match_list[i].match_type \in L4PortTypes
    IN  IF found_l4_port /\ ~found_ipproto
        THEN [ret |-> -1,
              err |-> Fail("MissingRequiredMatch", "tcflower_check_matchlist")]
        ELSE [ret |-> 0, err |-> NoErr]

(***************************************************************************)
(* tcflower_parse_action                                                   *)
(***************************************************************************)
\* What reading an enum kefir_action_code as an int gives.  The local of
\* tcflower_parse_rule has no initializer: until it is assigned, a read of
\* it gives any int.
IndeterminateInts == {-1, 0, 1, 32767}

ActionCodeReads(code) ==
    CASE code = "KEFIR_ACTION_CODE_DROP" -> {0}
      [] code = "KEFIR_ACTION_CODE_PASS" -> {1}
      [] OTHER -> IndeterminateInts

\* Mutant of ActionArgcBad: "at least 2" for "exactly 2".
ActionArgcBad_atLeast(c) == ULess(c, 2)

\* if (*argc != 2)
ActionArgcBad(c) == c # 2

\* garbage: the int the "%d" of the last err_fail prints, one of
\* ActionCodeReads(code).
tcflower_parse_action(cur, code, garbage) ==
    LET cur1 == NEXT_ARG(cur)
        by == "tcflower_parse_action"
    IN  IF ActionArgcBad(cur.argc)
        THEN [ret |-> -1, cur |-> cur, action_code |-> code,
              err |-> Fail("BadArgumentCount", by), reads |-> {}]
        ELSE IF TokenAt(cur.argv) # "action"
        THEN [ret |-> -1, cur |-> cur, action_code |-> code,
              err |-> Fail("MissingActionKeyword", by), reads |-> {cur.argv}]
        ELSE IF TokenAt(cur1.argv) = "pass"
        THEN [ret |-> 0, cur |-> cur1, action_code |-> "KEFIR_ACTION_CODE_PASS",
              err |-> NoErr, reads |-> {cur.argv, cur1.argv}]
        ELSE IF TokenAt(cur1.argv) = "drop"
        THEN [ret |-> 0, cur |-> cur1, action_code |-> "KEFIR_ACTION_CODE_DROP",
              err |-> NoErr, reads |-> {cur.argv, cur1.argv}]
        ELSE [ret |-> -1, cur |-> cur1, action_code |-> code,
              err |-> FailNum("UnsupportedActionCode", by, garbage),
              reads |-> {cur.argv, cur1.argv}]

(***************************************************************************)
(* tcflower_compose_rule                                                   *)
(***************************************************************************)
\* Mutant of tcflower_compose_rule: "rule->action = action_code" is lost and
\* the action stays what calloc() left, 0.
tcflower_compose_rule_noAction(ms, code, calloc_ok) ==
    IF ~calloc_ok
    THEN [rule |-> <<>>, allocated |-> 0,
          err |-> Fail("AllocationFailure", "tcflower_compose_rule")]
    ELSE [rule |-> << [matches |-> ms, action |-> "KEFIR_ACTION_CODE_DROP"] >>,
          allocated |-> 1, err |-> NoErr]

\* calloc_ok: whether calloc() returned memory.
tcflower_compose_rule(ms, code, calloc_ok) ==
    IF ~calloc_ok
    THEN [rule |-> <<>>, allocated |-> 0,
          err |-> Fail("AllocationFailure", "tcflower_compose_rule")]
    ELSE [rule |-> << [matches |-> ms, action |-> code] >>, allocated |-> 1,
          err |-> NoErr]

(***************************************************************************)
(* The token arrays of the model.                                          *)
(***************************************************************************)
RECURSIVE Flat(_)
\* The tokens of a list of <<keyword, value>> clauses.
Flat(cs) == IF cs = << >> THEN << >> ELSE Head(cs) \o Flat(Tail(cs))

SeqsUpTo(S, n) == UNION {[1..k -> S] : k \in 0..n}

Families == {"ip", "ipv4", "ipv6"}

ValidHeads ==
    {<<"protocol", f>> : f \in Families} \cup {<<"protocol", f, "flower">> : f \in Families}

BadHeads == {<<"proto", "ip">>, <<"protocol", "arp">>, <<"protocol", "ip", "flower", "flower">>}

GoodTails == {<<"action", "pass">>, <<"action", "drop">>}

BadTails ==
    {<<"action", "reject">>, <<"accept", "pass">>, <<"action">>,
     <<"action", "pass", "drop">>, << >>,
     <<"vlan_id", "action", "pass">>, <<"vlan_id">>}

\* A port clause, a protocol clause and a clause of neither kind.
CoreClauses == {<<"dst_port", "80">>, <<"ip_proto", "tcp">>, <<"vlan_id", "5">>}

\* With a value out of range and a keyword of the TODO list.
FaultClauses == CoreClauses \cup {<<"vlan_id", "4096">>, <<"type", "8">>}

\* Every keyword of tcflower_parse_match with a value its codec takes (the
\* address clauses in one family only), in plain and in masked form.
RichValid ==
    {<<"dst_mac", "aa:bb:cc:dd:ee:ff">>,
     <<"dst_mac", "aa:bb:cc:dd:ee:ff/ff:ff:ff:00:00:00">>,
     <<"src_mac", "aa:bb:cc:dd:ee:ff">>,
     <<"vlan_id", "80">>, <<"vlan_prio", "5">>, <<"vlan_ethtype", "4096">>,
     <<"cvlan_id", "80">>, <<"cvlan_prio", "5">>, <<"cvlan_ethtype", "4096">>,
     <<"ip_proto", "udp">>, <<"ip_proto", "17">>,
     <<"ip_tos", "5">>, <<"ip_tos", "5/7">>, <<"ip_ttl", "64">>, <<"ip_ttl", "5/7">>,
     <<"dst_ip", "10.0.0.1">>, <<"dst_ip", "10.0.0.1/24">>,
     <<"dst_ip", "2001:db8::1">>, <<"dst_ip", "2001:db8::1/64">>,
     <<"src_ip", "10.0.0.1">>, <<"src_ip", "2001:db8::1/64">>,
     <<"dst_port", "4096">>, <<"src_port", "80">>}

\* Every integer keyword with a value one past its width, an address that
\* is none, and tokens that are no match keyword.
RichBad ==
    {<<"vlan_id", "4096">>, <<"vlan_prio", "8">>, <<"vlan_ethtype", "65536">>,
     <<"cvlan_id", "4096">>, <<"cvlan_prio", "8">>, <<"cvlan_ethtype", "65536">>,
     <<"ip_proto", "256">>, <<"ip_proto", "tcpx">>, <<"ip_tos", "256">>,
     <<"ip_ttl", "256">>, <<"ip_ttl", "5/256">>,
     <<"dst_port", "65536">>, <<"src_port", "65536">>,
     <<"dst_mac", "5">>, <<"src_mac", "10.0.0.1">>,
     <<"tcp_flags", "5">>, <<"action", "pass">>, <<"flower", "5">>}

RichSeqs ==
    SeqsUpTo(RichValid, MaxRich)
    \cup {Append(cs, b) : cs \in SeqsUpTo(RichValid, MaxRich - 1), b \in RichBad}

\* The token arrays of a call: the well-formed long ones over the core
\* clauses, those over the whole keyword table, those with a damaged head,
\* clause or tail, and the latter cut short of the least rule size.
IsCoreInput(t) ==
    \E h \in ValidHeads, cs \in SeqsUpTo(CoreClauses, MaxClauses), tl \in GoodTails :
        t = h \o Flat(cs) \o tl

IsRichInput(t) ==
    \E h \in {<<"protocol", "ip">>, <<"protocol", "ipv6">>}, cs \in RichSeqs :
        t = h \o Flat(cs) \o <<"action", "pass">>

IsFaultInput(t) ==
    \E h \in ValidHeads \cup BadHeads, cs \in SeqsUpTo(FaultClauses, MaxRich),
       tl \in GoodTails \cup BadTails :
        t = h \o Flat(cs) \o tl

IsShortInput(t) ==
    \E h \in ValidHeads \cup BadHeads, cs \in SeqsUpTo(FaultClauses, MaxRich),
       tl \in GoodTails \cup BadTails, n \in 0..(MinRuleSize - 1) :
        /\ n <= Len(h \o Flat(cs) \o tl)
        /\ t = SubSeq(h \o Flat(cs) \o tl, 1, n)

\* As many clauses as there are slots, then tokens behind the action code.
TrailingTails == {<<"action", "pass", "drop">>, <<"action", "pass", "action", "pass">>}

IsCappedInput(t) ==
    \E h \in ValidHeads, tl \in TrailingTails,
       cs \in [1..KEFIR_MAX_MATCH_PER_RULE -> CoreClauses] :
        t = h \o Flat(cs) \o tl

IsInput(t) ==
    \/ IsCoreInput(t)
    \/ IsRichInput(t)
    \/ IsFaultInput(t)
    \/ IsShortInput(t)
    \/ IsCappedInput(t)

(***************************************************************************)
(* tcflower_parse_rule, step by step.                                      *)
(***************************************************************************)
Cursor == [argv |-> argv, argc |-> argc]

\* No earlier call.
NoOutcome == [called |-> FALSE, rule |-> << >>, kind |-> "none"]

\* The locals of tcflower_parse_rule on entry.
Entry ==
    /\ argv = 0
    /\ argc = 0
    /\ ethtype = "TCFLOWER_ETH_PROTO_UNSPEC"
    /\ matches = ZeroMatches
    /\ match_index = 0
    /\ action_code = "uninit"
    /\ rule = << >>
    /\ heap = 0
    /\ err = NoErr
    /\ pc = "start"
    /\ reads = {}
    /\ dispatched = {}

Init ==
    /\ IsInput(user_rule)
    /\ first = NoOutcome
    /\ Entry

\* return NULL after an error report.
ReturnNull(e) ==
    /\ err' = e
    /\ rule' = << >>
    /\ pc' = "done"

\* if (rule_size < 6) ...; argc = rule_size; argv = user_rule;
RuleSizeCheck ==
    /\ pc = "start"
    /\ IF rule_size < MinRuleSize
       THEN /\ ReturnNull(Fail("BadArgumentCount", "tcflower_parse_rule"))
            /\ UNCHANGED << argv, argc >>
       ELSE /\ argc' = rule_size
            /\ argv' = 1
            /\ pc' = "protocol"
            /\ UNCHANGED << err, rule >>
    /\ UNCHANGED << first, user_rule, ethtype, matches, match_index, action_code, heap,
                    reads, dispatched >>

\* if (strcmp(*argv, "protocol")) ...; argv += 1; argc -= 1;
ProtocolKeyword ==
    /\ pc = "protocol"
    /\ reads' = reads \cup {argv}
    /\ IF TokenAt(argv) # "protocol"
       THEN /\ ReturnNull(Fail("MissingProtocolKeyword", "tcflower_parse_rule"))
            /\ UNCHANGED << argv, argc >>
       ELSE /\ argv' = argv + 1
            /\ argc' = argc - 1
            /\ pc' = "ethproto"
            /\ UNCHANGED << err, rule >>
    /\ UNCHANGED << first, user_rule, ethtype, matches, match_index, action_code, heap,
                    dispatched >>

\* if (tcflower_parse_ethproto(&argv, &argc, &ethtype)) return NULL;
ParseEthproto ==
    /\ pc = "ethproto"
    /\ LET r == tcflower_parse_ethproto(Cursor, ethtype) IN
        /\ reads' = reads \cup {argv}
        /\ argv' = r.cur.argv
        /\ argc' = r.cur.argc
        /\ ethtype' = r.ethtype
        /\ IF r.ret # 0
           THEN ReturnNull(r.err)
           ELSE /\ pc' = "flower"
                /\ UNCHANGED << err, rule >>
    /\ UNCHANGED << first, user_rule, matches, match_index, action_code, heap, dispatched >>

\* The flower token is left where it is.
SkipFlower_noSkip ==
    /\ pc = "flower"
    /\ reads' = reads \cup {argv}
    /\ pc' = "loop"
    /\ UNCHANGED << first, user_rule, argv, argc, ethtype, matches, match_index,
                    action_code, rule, heap, err, dispatched >>

\* if (!strcmp(*argv, "flower")) { argv += 1; argc -= 1; }
SkipFlower ==
    /\ pc = "flower"
    /\ reads' = reads \cup {argv}
    /\ IF TokenAt(argv) = "flower"
       THEN /\ argv' = argv + 1
            /\ argc' = argc - 1
       ELSE UNCHANGED << argv, argc >>
    /\ pc' = "loop"
    /\ UNCHANGED << first, user_rule, ethtype, matches, match_index, action_code, rule,
                    heap, err, dispatched >>

\* Mutant of LoopCondition: the two tokens of the action clause are not
\* kept back.
LoopCondition_anyLeft == UGreater(argc, 0) /\ match_index < KEFIR_MAX_MATCH_PER_RULE

\* while (argc > 2 && match_index < KEFIR_MAX_MATCH_PER_RULE)
LoopCondition == UGreater(argc, 2) /\ match_index < KEFIR_MAX_MATCH_PER_RULE

\* One turn of the loop:
\* if (tcflower_parse_match(&argv, &argc, ethtype, &matches[match_index++]))
\*         return NULL;
ParseMatch ==
    /\ pc = "loop"
    /\ LoopCondition
    /\ LET slot == match_index + 1
           r == tcflower_parse_match(Cursor, ethtype, matches[slot])
       IN
        /\ match_index' = match_index + 1
        /\ matches' = [matches EXCEPT ![slot] = r.match]
        /\ argv' = r.cur.argv
        /\ argc' = r.cur.argc
        /\ reads' = reads \cup r.reads
        /\ dispatched' = dispatched \cup r.dispatched
        /\ IF r.ret # 0
           THEN ReturnNull(r.err)
           ELSE UNCHANGED << err, rule, pc >>
    /\ UNCHANGED << first, user_rule, ethtype, action_code, heap >>

\* The loop is left: if (tcflower_check_matchlist(matches)) return NULL;
CheckMatchlist ==
    /\ pc = "loop"
    /\ ~LoopCondition
    /\ LET r == tcflower_check_matchlist(matches) IN
        IF r.ret # 0
        THEN ReturnNull(r.err)
        ELSE /\ pc' = "action"
             /\ UNCHANGED << err, rule >>
    /\ UNCHANGED << first, user_rule, argv, argc, ethtype, matches, match_index,
                    action_code, heap, reads, dispatched >>

\* if (tcflower_parse_action(&argv, &argc, &action_code)) return NULL;
ParseAction ==
    /\ pc = "action"
    /\ \E garbage \in ActionCodeReads(action_code) :
        LET r == tcflower_parse_action(Cursor, action_code, garbage) IN
        /\ argv' = r.cur.argv
        /\ argc' = r.cur.argc
        /\ action_code' = r.action_code
        /\ reads' = reads \cup r.reads
        /\ IF r.ret # 0
           THEN ReturnNull(r.err)
           ELSE /\ pc' = "compose"
                /\ UNCHANGED << err, rule >>
    /\ UNCHANGED << first, user_rule, ethtype, matches, match_index, heap, dispatched >>

\* rule = tcflower_compose_rule(matches, action_code); return rule;
ComposeRule ==
    /\ pc = "compose"
    /\ \E calloc_ok \in BOOLEAN :
        LET r == tcflower_compose_rule(matches, action_code, calloc_ok) IN
        /\ rule' = r.rule
        /\ heap' = heap + r.allocated
        /\ err' = IF calloc_ok THEN err ELSE r.err
    /\ pc' = "done"
    /\ UNCHANGED << first, user_rule, argv, argc, ethtype, matches, match_index,
                    action_code, reads, dispatched >>

Next ==
    \/ RuleSizeCheck
    \/ ProtocolKeyword
    \/ ParseEthproto
    \/ SkipFlower
    \/ ParseMatch
    \/ CheckMatchlist
    \/ ParseAction
    \/ ComposeRule

Spec == Init /\ [][Next]_vars

(***************************************************************************)
(* Two calls: the rule with the flower token, then the same rule without.  *)
(***************************************************************************)
\* protocol F flower rest, rest being every prefix of clauses and a tail,
\* after a further flower token or none.
IsFlowerInput(t) ==
    \E F \in Families \cup {"arp"}, g \in {<< >>, <<"flower">>},
       cs \in SeqsUpTo(FaultClauses, MaxRich),
       tl \in GoodTails \cup BadTails, n \in 0..(2 * MaxRich + 3) :
        /\ n <= Len(Flat(cs) \o tl)
        /\ t = <<"protocol", F, "flower">> \o g \o SubSeq(Flat(cs) \o tl, 1, n)

InitFlower ==
    /\ IsFlowerInput(user_rule)
    /\ first = NoOutcome
    /\ Entry

\* The token array without its third token.
WithoutFlower(t) == SubSeq(t, 1, 2) \o SubSeq(t, 3 + 1, Len(t))

\* The caller keeps what the call returned and calls tcflower_parse_rule
\* again on the rule without the flower token.
SecondCall ==
    /\ pc = "done"
    /\ ~first.called
    /\ first' = [called |-> TRUE, rule |-> rule, kind |-> err.kind]
    /\ user_rule' = WithoutFlower(user_rule)
    /\ argv' = 0
    /\ argc' = 0
    /\ ethtype' = "TCFLOWER_ETH_PROTO_UNSPEC"
    /\ matches' = ZeroMatches
    /\ match_index' = 0
    /\ action_code' = "uninit"
    /\ rule' = << >>
    /\ heap' = 0
    /\ err' = NoErr
    /\ pc' = "start"
    /\ reads' = {}
    /\ dispatched' = {}

NextTwice ==
    \/ Next
    \/ SecondCall

SpecTwice == InitFlower /\ [][NextTwice]_vars

(***************************************************************************)
(* Calls on rules with an ip_proto clause.                                 *)
(***************************************************************************)
\* The five aliases, literals that fit 8 bits, one that does not, and
\* tokens that are neither.
IpprotoTokens ==
    {"tcp", "udp", "sctp", "icmp", "icmpv6", "5", "17", "256", "tcpx", "5/7",
     "10.0.0.1"}

OptionalCoreClause == {<< >>} \cup {c : c \in CoreClauses}

IsIpprotoInput(t) ==
    \E h \in ValidHeads \cup BadHeads, pre \in OptionalCoreClause,
       x \in IpprotoTokens, post \in OptionalCoreClause,
       tl \in GoodTails \cup BadTails :
        t = h \o pre \o <<"ip_proto", x>> \o post \o tl

InitIpproto ==
    /\ IsIpprotoInput(user_rule)
    /\ first = NoOutcome
    /\ Entry

SpecIpproto == InitIpproto /\ [][Next]_vars

(***************************************************************************)
(* The input seen as the grammar                                           *)
(*   protocol {ip|ipv4|ipv6} [flower] <keyword value>* action {pass|drop}  *)
(* and the keyword table of the specification.                             *)
(***************************************************************************)
HasFlower == rule_size >= 3 /\ user_rule[3] = "flower"

HeadLen == IF HasFlower THEN 3 ELSE 2

ValidProtocolClause ==
    rule_size >= 2 /\ user_rule[1] = "protocol" /\ user_rule[2] \in Families

InputIpv6 == rule_size >= 2 /\ user_rule[2] = "ipv6"

\* The tokens between head and the last two split into whole clauses.
WholeClauses == rule_size >= HeadLen + 2 /\ (rule_size - HeadLen) % 2 = 0

NClauses == (rule_size - HeadLen - 2) \div 2

ClauseKw(i) == user_rule[HeadLen + 2 * i - 1]

ClauseVal(i) == user_rule[HeadLen + 2 * i]

ValidActionTail ==
    /\ rule_size >= HeadLen + 2
    /\ user_rule[rule_size - 1] = "action"
    /\ user_rule[rule_size] \in {"pass", "drop"}

ParsedAction ==
    IF user_rule[rule_size] = "pass" THEN "KEFIR_ACTION_CODE_PASS"
    ELSE "KEFIR_ACTION_CODE_DROP"

\* The keyword table: the match kind of a keyword in each family.
TableKind(kw, ipv6) ==
    LET fixed == [dst_mac |-> "KEFIR_MATCH_TYPE_ETHER_DST",
                  src_mac |-> "KEFIR_MATCH_TYPE_ETHER_SRC",
                  vlan_id |-> "KEFIR_MATCH_TYPE_SVLAN_ID",
                  vlan_prio |-> "KEFIR_MATCH_TYPE_SVLAN_PRIO",
                  vlan_ethtype |-> "KEFIR_MATCH_TYPE_SVLAN_ETHERTYPE",
                  cvlan_id |-> "KEFIR_MATCH_TYPE_CVLAN_ID",
                  cvlan_prio |-> "KEFIR_MATCH_TYPE_CVLAN_PRIO",
                  cvlan_ethtype |-> "KEFIR_MATCH_TYPE_CVLAN_ETHERTYPE"]
        v4 == [ip_proto |-> "KEFIR_MATCH_TYPE_IP_4_L4PROTO",
               ip_tos |-> "KEFIR_MATCH_TYPE_IP_4_TOS",
               ip_ttl |-> "KEFIR_MATCH_TYPE_IP_4_TTL",
               dst_ip |-> "KEFIR_MATCH_TYPE_IP_4_DST",
               src_ip |-> "KEFIR_MATCH_TYPE_IP_4_SRC",
               dst_port |-> "KEFIR_MATCH_TYPE_IP_4_L4PORT_DST",
               src_port |-> "KEFIR_MATCH_TYPE_IP_4_L4PORT_SRC"]
        v6 == [ip_proto |-> "KEFIR_MATCH_TYPE_IP_6_L4PROTO",
               ip_tos |-> "KEFIR_MATCH_TYPE_IP_6_TOS",
               ip_ttl |-> "KEFIR_MATCH_TYPE_IP_6_TTL",
               dst_ip |-> "KEFIR_MATCH_TYPE_IP_6_DST",
               src_ip |-> "KEFIR_MATCH_TYPE_IP_6_SRC",
               dst_port |-> "KEFIR_MATCH_TYPE_IP_6_L4PORT_DST",
               src_port |-> "KEFIR_MATCH_TYPE_IP_6_L4PORT_SRC"]
    IN  IF kw \in DOMAIN fixed THEN fixed[kw]
        ELSE IF ipv6 THEN v6[kw] ELSE v4[kw]

TableKeywords ==
    {"dst_mac", "src_mac", "vlan_id", "vlan_prio", "vlan_ethtype", "cvlan_id",
     "cvlan_prio", "cvlan_ethtype", "ip_proto", "ip_tos", "ip_ttl", "dst_ip",
     "src_ip", "dst_port", "src_port"}

FamilyKeywords ==
    {"ip_proto", "ip_tos", "ip_ttl", "dst_ip", "src_ip", "dst_port", "src_port"}

\* The keyword table: what the value codec makes of a keyword's value.
TableDecode(kw, val, ipv6) ==
    CASE kw \in {"dst_mac", "src_mac"} -> parse_eth_addr_slash_mask(val)
      [] kw \in {"vlan_id", "cvlan_id"} -> parse_uint(val, "u16", 12)
      [] kw \in {"vlan_prio", "cvlan_prio"} -> parse_uint(val, "u8", 3)
      [] kw \in {"vlan_ethtype", "cvlan_ethtype", "dst_port", "src_port"} ->
            parse_uint(val, "u16", 16)
      [] kw = "ip_proto" ->
            IF IsIpprotoAlias(val) THEN parse_check_and_store_uint(IpprotoOf(val), "u8", 8)
            ELSE parse_uint(val, "u8", 8)
      [] kw \in {"ip_tos", "ip_ttl"} -> parse_uint_slash_mask(val, "u8", 8)
      [] kw \in {"dst_ip", "src_ip"} ->
            IF ipv6 THEN parse_ipv6_addr_slash_mask(val)
            ELSE parse_ipv4_addr_slash_mask(val)

\* Clause i has a keyword of the table and a value its codec accepts.
WellFormedClause(i) ==
    /\ ClauseKw(i) \in TableKeywords
    /\ TableDecode(ClauseKw(i), ClauseVal(i), InputIpv6).res = 0

\* The input follows the grammar: a valid protocol clause, well-formed
\* clauses (any number of them), a valid action.
GrammarInput ==
    /\ ValidProtocolClause
    /\ WholeClauses
    /\ ValidActionTail
    /\ \A i \in 1..NClauses : WellFormedClause(i)

PortKeywords == {"src_port", "dst_port"}

Returned == pc = "done" /\ rule # << >>

Failed(kind) == pc = "done" /\ rule = << >> /\ err.kind = kind

\* Slot i of the returned rule is clause i of the input.
SlotIsClause(i) ==
    LET m == rule[1].matches[i] IN
    /\ m.match_type = TableKind(ClauseKw(i), InputIpv6)
    /\ m.comp_operator = "KEFIR_OPER_EQUAL"
    /\ m.value.data = TableDecode(ClauseKw(i), ClauseVal(i), InputIpv6).data

RuleIsInput ==
    /\ rule # << >>
    /\ rule[1].action = ParsedAction
    /\ \A i \in 1..KEFIR_MAX_MATCH_PER_RULE :
          IF i <= NClauses THEN SlotIsClause(i)
          ELSE rule[1].matches[i].match_type = "KEFIR_MATCH_TYPE_UNSPEC"

(***************************************************************************)
(* C1                                                                      *)
(***************************************************************************)
\* C1 as stated: a call on an input of the grammar with 1 to 5 well-formed
\* clauses and a valid action, once it has returned (a failed calloc()
\* aside), has returned a rule holding the parsed action and, slot by slot
\* in input order, the parsed clauses, the other slots UNSPEC.
C1_AsStated ==
    (/\ pc = "done"
     /\ GrammarInput
     /\ NClauses \in 1..KEFIR_MAX_MATCH_PER_RULE
     /\ err.kind # "AllocationFailure")
    => RuleIsInput

\* A port clause is among the clauses and an ip_proto clause is not.
PortWithoutProto ==
    /\ \E i \in 1..NClauses : ClauseKw(i) \in PortKeywords
    /\ \A i \in 1..NClauses : ClauseKw(i) # "ip_proto"

\* C1, amended: the same for the inputs whose clauses do not hold a
\* src_port or dst_port clause without an ip_proto clause; the call fails
\* only when calloc() does.
C1_Amended ==
    (/\ pc = "done"
     /\ GrammarInput
     /\ NClauses \in 1..KEFIR_MAX_MATCH_PER_RULE
     /\ ~PortWithoutProto)
    => \/ RuleIsInput
       \/ Failed("AllocationFailure")

\* A rule of five matches, a masked address among them, has been returned.
C1_Witness ==
    /\ Returned
    /\ GrammarInput
    /\ NClauses = KEFIR_MAX_MATCH_PER_RULE
    /\ \E i \in 1..NClauses : ClauseKw(i) = "dst_port"
    /\ \E i \in 1..NClauses : ClauseKw(i) = "ip_proto"

(***************************************************************************)
(* C2                                                                      *)
(***************************************************************************)
\* C2 as stated: a returned call on a well-formed rule with a src_port or
\* dst_port clause and no ip_proto clause has failed with
\* MissingRequiredMatch, wherever the port clause stands.
C2_AsStated ==
    (pc = "done" /\ GrammarInput /\ PortWithoutProto)
    => Failed("MissingRequiredMatch")

\* C2, amended: the same when a port clause is among the first
\* KEFIR_MAX_MATCH_PER_RULE clauses.
C2_Amended ==
    (/\ pc = "done"
     /\ GrammarInput
     /\ PortWithoutProto
     /\ \E i \in 1..NClauses :
           i <= KEFIR_MAX_MATCH_PER_RULE /\ ClauseKw(i) \in PortKeywords)
    => /\ Failed("MissingRequiredMatch")
       /\ err.by = "tcflower_check_matchlist"

\* The port clause is the last of three clauses, and the call has failed.
C2_Witness ==
    /\ Failed("MissingRequiredMatch")
    /\ GrammarInput
    /\ NClauses = 3
    /\ ClauseKw(1) \notin PortKeywords
    /\ ClauseKw(3) \in PortKeywords

(***************************************************************************)
(* C3                                                                      *)
(***************************************************************************)
Populated(r) ==
    {i \in 1..KEFIR_MAX_MATCH_PER_RULE :
        r.matches[i].match_type # "KEFIR_MATCH_TYPE_UNSPEC"}

\* C3: a returned rule has 1 to 5 populated match slots, which are its
\* first slots, and its action is pass or drop.
C3_MatchCount ==
    Returned =>
        /\ Cardinality(Populated(rule[1])) \in 1..KEFIR_MAX_MATCH_PER_RULE
        /\ Populated(rule[1]) = 1..Cardinality(Populated(rule[1]))
        /\ rule[1].action \in {"KEFIR_ACTION_CODE_PASS", "KEFIR_ACTION_CODE_DROP"}

\* A rule with one match has been returned for an input with "flower".
C3_Witness ==
    /\ Returned
    /\ HasFlower
    /\ Cardinality(Populated(rule[1])) = 1

(***************************************************************************)
(* C4                                                                      *)
(***************************************************************************)
\* C4: a call with fewer than 6 tokens fails with BadArgumentCount in its
\* first step: no token is read, the cursor is not set or moved, no match
\* is parsed and the action is not parsed.
C4_ShortRule ==
    (rule_size < 6 /\ pc # "start") =>
        /\ Failed("BadArgumentCount")
        /\ err.by = "tcflower_parse_rule"
        /\ reads = {}
        /\ dispatched = {}
        /\ argv = 0
        /\ match_index = 0
        /\ matches = ZeroMatches
        /\ action_code = "uninit"

\* A call with five tokens that begin as a rule does has returned.
C4_Witness ==
    /\ pc = "done"
    /\ rule_size = 5
    /\ ValidProtocolClause
    /\ user_rule[3] \in TableKeywords

(***************************************************************************)
(* C5                                                                      *)
(***************************************************************************)
\* C5 as stated: the step of the action clause parser taken with exactly 2
\* tokens left, the first "action" and the second neither "pass" nor
\* "drop", fails with UnsupportedActionCode, and the failure carries the
\* second token.
C5_AsStated ==
    [][(/\ pc = "action"
        /\ argc = 2
        /\ TokenAt(argv) = "action"
        /\ TokenAt(argv + 1) \notin {"pass", "drop"})
       => (/\ pc' = "done"
           /\ rule' = << >>
           /\ err'.kind = "UnsupportedActionCode"
           /\ err'.fmt = "%s"
           /\ err'.str = TokenAt(argv + 1))]_vars

(***************************************************************************)
(* C6                                                                      *)
(***************************************************************************)
Ipv4Types ==
    {"KEFIR_MATCH_TYPE_IP_4_SRC", "KEFIR_MATCH_TYPE_IP_4_DST",
     "KEFIR_MATCH_TYPE_IP_4_ANY", "KEFIR_MATCH_TYPE_IP_4_TOS",
     "KEFIR_MATCH_TYPE_IP_4_TTL", "KEFIR_MATCH_TYPE_IP_4_FLAGS",
     "KEFIR_MATCH_TYPE_IP_4_L4PROTO", "KEFIR_MATCH_TYPE_IP_4_L4DATA",
     "KEFIR_MATCH_TYPE_IP_4_L4PORT_SRC", "KEFIR_MATCH_TYPE_IP_4_L4PORT_DST",
     "KEFIR_MATCH_TYPE_IP_4_L4PORT_ANY", "KEFIR_MATCH_TYPE_IP_4_SPI",
     "KEFIR_MATCH_TYPE_IP_4_TCP_FLAGS"}

Ipv6Types ==
    {"KEFIR_MATCH_TYPE_IP_6_SRC", "KEFIR_MATCH_TYPE_IP_6_DST",
     "KEFIR_MATCH_TYPE_IP_6_ANY", "KEFIR_MATCH_TYPE_IP_6_TOS",
     "KEFIR_MATCH_TYPE_IP_6_TTL", "KEFIR_MATCH_TYPE_IP_6_FLAGS",
     "KEFIR_MATCH_TYPE_IP_6_L4PROTO", "KEFIR_MATCH_TYPE_IP_6_L4DATA",
     "KEFIR_MATCH_TYPE_IP_6_L4PORT_SRC", "KEFIR_MATCH_TYPE_IP_6_L4PORT_DST",
     "KEFIR_MATCH_TYPE_IP_6_L4PORT_ANY", "KEFIR_MATCH_TYPE_IP_6_SPI",
     "KEFIR_MATCH_TYPE_IP_6_TCP_FLAGS"}

\* The family the protocol clause names.
InputFamilyTypes == IF InputIpv6 THEN Ipv6Types ELSE Ipv4Types

\* C6: once the protocol clause is parsed, ethtype is the family its token
\* names and stays so; in a returned rule the match of every
\* family-dependent clause has a kind of that family.
C6_OneFamily ==
    /\ (pc \in {"flower", "loop", "action", "compose"} \/ Returned)
         => ethtype = IF InputIpv6 THEN "TCFLOWER_ETH_PROTO_IPV6"
                      ELSE "TCFLOWER_ETH_PROTO_IPV4"
    /\ Returned =>
         \A i \in Populated(rule[1]) :
            /\ ClauseKw(i) \in FamilyKeywords
                 => rule[1].matches[i].match_type \in InputFamilyTypes
            /\ ClauseKw(i) \notin FamilyKeywords
                 => rule[1].matches[i].match_type \notin Ipv4Types \cup Ipv6Types

\* An IPv6 rule with a protocol and a port match has been returned.
C6_Witness ==
    /\ Returned
    /\ InputIpv6
    /\ \E i, j \in Populated(rule[1]) :
          /\ ClauseKw(i) = "ip_proto"
          /\ ClauseKw(j) = "dst_port"
          /\ rule[1].matches[j].match_type = "KEFIR_MATCH_TYPE_IP_6_L4PORT_DST"

(***************************************************************************)
(* C7                                                                      *)
(***************************************************************************)
\* C7 as stated: in a returned rule the mask of every match is all-ones,
\* unless the value token of its clause had the value/mask form.
C7_AsStated ==
    Returned =>
        \A i \in Populated(rule[1]) :
            \/ rule[1].matches[i].mask = AllOnes
            \/ HasSlash(ClauseVal(i))

(***************************************************************************)
(* C8                                                                      *)
(***************************************************************************)
\* The loop has stopped at the cap: 5 matches produced, more than 2 tokens
\* left, and no port match without a protocol match among the 5.
StoppedAtCap ==
    /\ pc \in {"loop", "action", "compose", "done"}
    /\ match_index = KEFIR_MAX_MATCH_PER_RULE
    /\ \A i \in 1..KEFIR_MAX_MATCH_PER_RULE :
          matches[i].match_type # "KEFIR_MATCH_TYPE_UNSPEC"
    /\ UGreater(argc, 2)
    /\ \/ \A i \in 1..KEFIR_MAX_MATCH_PER_RULE : matches[i].match_type \notin L4PortTypes
       \/ \E i \in 1..KEFIR_MAX_MATCH_PER_RULE : matches[i].match_type \in L4ProtoTypes

\* C8: when the loop has stopped at the cap, the call ends in the
\* BadArgumentCount of the action clause parser: no token at or after the
\* cursor (the 6th clause) is ever dispatched as a match keyword, no rule
\* is composed or returned.
C8_SixthClause ==
    StoppedAtCap =>
        /\ pc \in {"loop", "action", "done"}
        /\ \A i \in dispatched : i < argv
        /\ rule = << >>
        /\ heap = 0
        /\ pc = "done" => err = Fail("BadArgumentCount", "tcflower_parse_action")

\* A call on six well-formed clauses has returned from the cap.
C8_Witness ==
    /\ StoppedAtCap
    /\ pc = "done"
    /\ GrammarInput
    /\ NClauses = KEFIR_MAX_MATCH_PER_RULE + 1

(***************************************************************************)
(* C9                                                                      *)
(***************************************************************************)
\* The declared bit width of the integer keywords of the keyword table.
DeclaredWidth ==
    [vlan_id |-> 12, vlan_prio |-> 3, vlan_ethtype |-> 16,
     cvlan_id |-> 12, cvlan_prio |-> 3, cvlan_ethtype |-> 16,
     ip_proto |-> 8, ip_tos |-> 8, ip_ttl |-> 8, dst_port |-> 16, src_port |-> 16]

\* A number that does not fit the width of the keyword.
WidthViolated(kw, val) ==
    /\ kw \in DOMAIN DeclaredWidth
    /\ IsNumber(val)
    /\ NumberOf(val) >= Pow2(DeclaredWidth[kw])

\* The keyword the match clause parser dispatched last.
LastDispatched == CHOOSE d \in dispatched : \A e \in dispatched : e <= d

\* The last clause handed to the match clause parser violates its width.
WidthViolation ==
    /\ dispatched # {}
    /\ WidthViolated(TokenAt(LastDispatched), TokenAt(LastDispatched + 1))

\* C9 as stated: a match clause whose value violates the declared width of
\* its keyword makes the call fail with MalformedValue, whatever the
\* keyword.
C9_AsStated == WidthViolation => Failed("MalformedValue")

\* C9, amended: it makes the call fail with MalformedValue for every
\* keyword but ip_proto, and with UnsupportedProtocolNumber for ip_proto.
C9_Amended ==
    WidthViolation =>
        IF TokenAt(LastDispatched) = "ip_proto"
        THEN Failed("UnsupportedProtocolNumber")
        ELSE Failed("MalformedValue")

\* The second clause of a rule, a cvlan_prio of 8, has made the call fail.
C9_Witness ==
    /\ Failed("MalformedValue")
    /\ WidthViolation
    /\ TokenAt(LastDispatched) = "cvlan_prio"
    /\ LastDispatched > HeadLen + 1

(***************************************************************************)
(* C10                                                                     *)
(***************************************************************************)
\* The slots a rule must hold after match_index successful clauses.
FilledTo(ms, n) ==
    \A i \in 1..KEFIR_MAX_MATCH_PER_RULE :
        (ms[i].match_type # "KEFIR_MATCH_TYPE_UNSPEC") <=> (i <= n)

\* C10: a rule object exists only as the returned rule; a call that
\* reported a failure returns NULL and leaves nothing allocated; a call
\* that returns NULL has reported a failure; and a rule exists only when
\* every match clause parsed so far has succeeded, the list has no port
\* match without a protocol match and the action is parsed, and it is the
\* copy of the whole match array and of the action.
C10_NoPartialRule ==
    /\ heap = Len(rule)
    /\ pc # "done" => rule = << >>
    /\ err.kind # "none" => (pc = "done" /\ rule = << >> /\ heap = 0)
    /\ (pc = "done" /\ rule = << >>) => err.kind # "none"
    /\ rule # << >> =>
        /\ match_index >= 1
        /\ FilledTo(matches, match_index)
        /\ \/ \A i \in 1..match_index : matches[i].match_type \notin L4PortTypes
           \/ \E i \in 1..match_index : matches[i].match_type \in L4ProtoTypes
        /\ action_code \in {"KEFIR_ACTION_CODE_PASS", "KEFIR_ACTION_CODE_DROP"}
        /\ rule[1] = [matches |-> matches, action |-> action_code]

\* Two clauses were parsed into the array, then the action clause failed.
C10_Witness ==
    /\ Failed("UnsupportedActionCode")
    /\ match_index = 2
    /\ FilledTo(matches, 2)
    /\ heap = 0

(***************************************************************************)
(* C11                                                                     *)
(***************************************************************************)
\* The stages in source order.  The match loop and the validation that
\* follows it are both taken at "loop": a turn of the loop stays there, the
\* validation leaves it.
StageRank(p) ==
    CASE p = "start" -> 0 [] p = "protocol" -> 1 [] p = "ethproto" -> 2
      [] p = "flower" -> 3 [] p = "loop" -> 4 [] p = "action" -> 5
      [] p = "compose" -> 6 [] p = "done" -> 7

\* The functions whose failure a stage can report.
StageReporters(p) ==
    CASE p \in {"start", "protocol"} -> {"tcflower_parse_rule"}
      [] p = "ethproto" -> {"tcflower_parse_ethproto"}
      [] p = "loop" -> {"tcflower_parse_match", "tcflower_parse_ipproto", "codec",
                        "tcflower_check_matchlist"}
      [] p = "action" -> {"tcflower_parse_action"}
      [] p = "compose" -> {"tcflower_compose_rule"}
      [] OTHER -> {}

\* A two-token tail that is no valid action clause, after whole clauses.
MalformedActionTail == WholeClauses /\ ~ValidActionTail

\* The first clause the value codec or the keyword table refuses.
FirstBadClause(i) ==
    /\ i \in 1..NClauses
    /\ ~WellFormedClause(i)
    /\ \A j \in 1..(i - 1) : WellFormedClause(j)

\* C11: every step moves to the next stage in the order PROTOCOL, FLOWER,
\* MATCH*, VALIDATE, ACTION, COMPOSE or ends the call; a stage is entered
\* only with no failure reported; a failure is reported by the stage that
\* was running, so it is the earliest one: a port match without ip_proto
\* before a malformed action clause ends in MissingRequiredMatch, a refused
\* match clause before a malformed action clause ends in the match error.
C11_StageOrder ==
    [][/\ pc' # pc => (pc' = "done" \/ StageRank(pc') = StageRank(pc) + 1)
       /\ pc' = pc => (pc = "loop" /\ match_index' = match_index + 1)
       /\ pc' # "done" => (err' = NoErr /\ rule' = << >>)
       /\ (pc' = "done" /\ rule' = << >>) =>
            (err'.kind # "none" /\ err'.by \in StageReporters(pc))
       /\ (pc' = "done" /\ rule' # << >>) => pc = "compose"
       /\ (/\ pc' = "done"
           /\ ValidProtocolClause
           /\ MalformedActionTail
           /\ \A i \in 1..NClauses : WellFormedClause(i)
           /\ PortWithoutProto
           /\ \E i \in 1..NClauses :
                 i <= KEFIR_MAX_MATCH_PER_RULE /\ ClauseKw(i) \in PortKeywords)
          => err'.kind = "MissingRequiredMatch"
       /\ (/\ pc' = "done"
           /\ ValidProtocolClause
           /\ MalformedActionTail
           /\ \E i \in 1..KEFIR_MAX_MATCH_PER_RULE : FirstBadClause(i))
          => err'.by \in {"tcflower_parse_match", "tcflower_parse_ipproto", "codec"}
      ]_vars

\* A rule with a port match without ip_proto and a malformed action clause
\* has failed in the validation.
C11_Witness ==
    /\ Failed("MissingRequiredMatch")
    /\ ValidProtocolClause
    /\ MalformedActionTail
    /\ PortWithoutProto
    /\ NClauses = 2

(***************************************************************************)
(* C12                                                                     *)
(***************************************************************************)
\* Both calls have returned: first holds the outcome with the flower token,
\* rule and err the outcome without it.
BothReturned == pc = "done" /\ first.called

\* An allocation failure is no property of the token array.
NoAllocationFailure ==
    first.kind # "AllocationFailure" /\ err.kind # "AllocationFailure"

SameOutcome == first.rule = rule /\ first.kind = err.kind

SlotsBeforeFirstUnspec(ms) ==
    LET unspec == {i \in 1..KEFIR_MAX_MATCH_PER_RULE :
                      ms[i].match_type = "KEFIR_MATCH_TYPE_UNSPEC"}
        lim == IF unspec = {} THEN KEFIR_MAX_MATCH_PER_RULE + 1
               ELSE CHOOSE i \in unspec : \A j \in unspec : i <= j
    IN  1..(lim - 1)

PortSlotWithoutProtoSlot(ms) ==
    /\ \E i \in SlotsBeforeFirstUnspec(ms) : ms[i].match_type \in L4PortTypes
    /\ \A i \in SlotsBeforeFirstUnspec(ms) : ms[i].match_type \notin L4ProtoTypes

\* The step that leaves the match loop and validates the match list.
ValidationStep == pc = "loop" /\ pc' # "loop" /\ match_index' = match_index

\* One to five well-formed clauses with an ip_proto clause and a port clause
\* among them, in any order, between a valid protocol and a valid action.
PortAndProtoInput ==
    /\ GrammarInput
    /\ NClauses \in 1..KEFIR_MAX_MATCH_PER_RULE
    /\ \E i \in 1..NClauses : ClauseKw(i) = "ip_proto"
    /\ \E i \in 1..NClauses : ClauseKw(i) \in PortKeywords

\* C13: a rule with a valid protocol, a valid action and one to five valid
\* clauses holding both an ip_proto and a port clause is returned whatever
\* their order (calloc() permitting), and the validation rejects exactly
\* when the slots before the first UNSPEC one hold an L4-port kind and no
\* L4-protocol kind.
C13_PortNeedsProto ==
    [][/\ (pc' = "done" /\ PortAndProtoInput /\ err'.kind # "AllocationFailure")
            => rule' # << >>
       /\ ValidationStep =>
            ((pc' = "done" /\ err'.kind = "MissingRequiredMatch")
                <=> PortSlotWithoutProtoSlot(matches))
       /\ ValidationStep =>
            (pc' = "action" <=> ~PortSlotWithoutProtoSlot(matches))
      ]_vars

\* A rule was returned whose port clause comes before its ip_proto clause.
C13_Witness ==
    /\ Returned
    /\ PortAndProtoInput
    /\ \E i, j \in 1..NClauses :
          i < j /\ ClauseKw(i) \in PortKeywords /\ ClauseKw(j) = "ip_proto"

(***************************************************************************)
(* C14                                                                     *)
(***************************************************************************)
\* A step in which tcflower_parse_rule calls the match parser.
MatchParserStep == pc = "loop" /\ match_index' = match_index + 1

\* C14: the match parser called on a token that is none of the fifteen
\* keywords fails with UnsupportedMatchKeyword carrying that token, leaves
\* the cursor and the count of tokens left as they were, and leaves the kind
\* of its slot UNSPEC.
C14_UnknownKeyword ==
    [][(MatchParserStep /\ TokenAt(argv) \notin TableKeywords) =>
          /\ pc' = "done"
          /\ rule' = << >>
          /\ err'.kind = "UnsupportedMatchKeyword"
          /\ err'.str = TokenAt(argv)
          /\ argv' = argv
          /\ argc' = argc
          /\ matches'[match_index + 1].match_type = "KEFIR_MATCH_TYPE_UNSPEC"
      ]_vars

\* The match parser has refused a reserved keyword, the action keyword or a
\* second flower, after one match was parsed.
C14_Witness ==
    /\ Failed("UnsupportedMatchKeyword")
    /\ err.str \in {"type", "tcp_flags", "action", "flower"}
    /\ err.str = TokenAt(argv)
    /\ match_index = 2
    /\ UGreater(argc, 2)

(***************************************************************************)
(* C15                                                                     *)
(***************************************************************************)
\* The value encoding the keyword table declares for a keyword.
DeclaredFormat(kw, ipv6) ==
    CASE kw \in {"dst_mac", "src_mac"} -> "KEFIR_VAL_FMT_MAC_ADDR"
      [] kw \in {"vlan_id", "cvlan_id"} -> "KEFIR_VAL_FMT_UINT12"
      [] kw \in {"vlan_prio", "cvlan_prio"} -> "KEFIR_VAL_FMT_UINT3"
      [] kw \in {"vlan_ethtype", "cvlan_ethtype", "dst_port", "src_port"} ->
            "KEFIR_VAL_FMT_UINT16"
      [] kw \in {"ip_proto", "ip_tos", "ip_ttl"} -> "KEFIR_VAL_FMT_UINT8"
      [] kw \in {"dst_ip", "src_ip"} ->
            IF ipv6 THEN "KEFIR_VAL_FMT_IPV6_ADDR" ELSE "KEFIR_VAL_FMT_IPV4_ADDR"
      [] OTHER -> "none"

\* C15 as stated: every match of a returned rule carries a value whose
\* format tag is the encoding the keyword table declares for its keyword.
C15_AsStated ==
    Returned =>
        \A i \in Populated(rule[1]) :
            rule[1].matches[i].value.format = DeclaredFormat(ClauseKw(i), InputIpv6)

(***************************************************************************)
(* C16                                                                     *)
(***************************************************************************)
\* The protocol numbers of the aliases.
AliasNumber == [tcp |-> 6, udp |-> 17, sctp |-> 132, icmp |-> 1, icmpv6 |-> 58]

\* The match parser step stored n as the ip_proto of its slot.
StoresIpproto(n) ==
    /\ pc' = "loop"
    /\ err' = NoErr
    /\ matches'[match_index + 1].match_type \in L4ProtoTypes
    /\ matches'[match_index + 1].value.data.num = n

\* C16: the ip_proto value tcp, udp, sctp, icmp, icmpv6 gives 6, 17, 132, 1,
\* 58 in either family; any other token is read as an 8-bit unsigned
\* literal, and when that fails the call fails with
\* UnsupportedProtocolNumber.
C16_IpprotoValue ==
    [][(MatchParserStep /\ TokenAt(argv) = "ip_proto") =>
          LET x == TokenAt(argv + 1) IN
          IF x \in DOMAIN AliasNumber THEN StoresIpproto(AliasNumber[x])
          ELSE IF IsNumber(x) /\ NumberOf(x) < Pow2(8)
          THEN StoresIpproto(NumberOf(x))
          ELSE /\ pc' = "done"
               /\ rule' = << >>
               /\ err'.kind = "UnsupportedProtocolNumber"
      ]_vars

\* A rule was returned for an IPv6 flow whose ip_proto alias is one of the
\* three less common ones.
C16_Witness ==
    /\ Returned
    /\ InputIpv6
    /\ \E i \in 1..NClauses :
          /\ ClauseKw(i) = "ip_proto"
          /\ ClauseVal(i) \in {"sctp", "icmp", "icmpv6"}
          /\ rule[1].matches[i].value.data.num = AliasNumber[ClauseVal(i)]

(***************************************************************************)
(* C17                                                                     *)
(***************************************************************************)
\* The step in which tcflower_parse_rule calls tcflower_parse_ethproto.
EthprotoStep == pc = "ethproto" /\ pc' # "ethproto"

\* The slots whose content the step changes.
SlotsChanged == {i \in 1..KEFIR_MAX_MATCH_PER_RULE : matches'[i] # matches[i]}

\* C17: a successful call of the match parser moves the cursor on by two
\* tokens, lowers the count of tokens left by two and fills one slot, the
\* next free one; no step moves the cursor back; tcflower_parse_ethproto
\* moves it on by one token when it succeeds and leaves it when it fails.
C17_CursorAdvance ==
    [][/\ (MatchParserStep /\ pc' = "loop") =>
            /\ argv' = argv + 2
            /\ argc' = argc - 2
            /\ SlotsChanged = {match_index + 1}
            /\ matches[match_index + 1].match_type = "KEFIR_MATCH_TYPE_UNSPEC"
            /\ matches'[match_index + 1].match_type # "KEFIR_MATCH_TYPE_UNSPEC"
       /\ argv' >= argv
       /\ (EthprotoStep /\ pc' = "flower") => (argv' = argv + 1 /\ argc' = argc - 1)
       /\ (EthprotoStep /\ pc' = "done") => (argv' = argv /\ argc' = argc)
      ]_vars

\* Three matches were parsed and the cursor stands six tokens behind the
\* protocol clause and its flower.
C17_Witness ==
    /\ pc = "loop"
    /\ match_index = 3
    /\ HasFlower
    /\ argv = HeadLen + 1 + 2 * match_index
    /\ argc = rule_size - HeadLen - 2 * match_index

(***************************************************************************)
(* C18                                                                     *)
(***************************************************************************)
\* C18: every token read lies inside the array, the count of tokens left
\* never wraps below 0, and once the cursor is set it stands argc tokens in
\* front of the end of the array, so a read of the current token happens
\* only while at least one token is left.
C18_ReadsInBounds ==
    /\ reads \subseteq 1..rule_size
    /\ argc >= 0
    /\ argv >= 1 => argv + argc = rule_size + 1
    /\ \A i \in reads : rule_size - i + 1 >= 1

\* The action code was read as the last token, one token being left.
C18_Witness ==
    /\ Returned
    /\ argc = 1
    /\ argv = rule_size
    /\ reads = 1..rule_size
    /\ HasFlower

(***************************************************************************)
(* C19                                                                     *)
(***************************************************************************)
\* C19: a rule is returned only for an array of 4 + f + 2n tokens, f being
\* 1 when flower follows the family token and 0 otherwise, n in 1..5 the
\* number of populated matches; so the tokens behind the protocol clause
\* are whole clauses and the action clause is the end of the array.
C19_EveryTokenAccounted ==
    Returned =>
        LET f == IF TokenAt(3) = "flower" THEN 1 ELSE 0
            n == Cardinality(Populated(rule[1]))
        IN  /\ n \in 1..KEFIR_MAX_MATCH_PER_RULE
            /\ rule_size = 4 + f + 2 * n
            /\ TokenAt(rule_size - 1) = "action"
            /\ TokenAt(rule_size) \in {"pass", "drop"}

\* A rule with five matches was returned for an array with flower.
C19_Witness ==
    /\ Returned
    /\ TokenAt(3) = "flower"
    /\ Cardinality(Populated(rule[1])) = KEFIR_MAX_MATCH_PER_RULE
    /\ rule_size = 4 + 1 + 2 * KEFIR_MAX_MATCH_PER_RULE

(***************************************************************************)
(* C20                                                                     *)
(***************************************************************************)
\* C20: tcflower_parse_rule calls the match parser only with at least three
\* tokens left, a successful call leaves at least one, and no call ends in
\* the BadArgumentCount of the match parser: a keyword without its value is
\* never reported that way.
C20_MatchParserBudget ==
    [][MatchParserStep =>
          /\ argc >= 3
          /\ pc' = "loop" => argc' >= 1
          /\ ~(err'.kind = "BadArgumentCount" /\ err'.by = "tcflower_parse_match")
      ]_vars

\* A keyword of the table stood where its value was missing in front of the
\* action clause: the call failed on the action keyword taken as the value.
C20_Witness ==
    /\ Failed("MalformedValue")
    /\ argv >= 2
    /\ TokenAt(argv - 1) \in TableKeywords
    /\ TokenAt(argv) = "action"
    /\ argc = 2

====
